---------------------------- MODULE Spec2Model ----------------------------
(***************************************************************************)
(* The IT ticket dashboard (it_ticket_dashboard.py) as a state machine.    *)
(*                                                                         *)
(* The script is re-run from top to bottom on every user interaction: an   *)
(* upload, the removal of the file, or a change of one sidebar widget.     *)
(* Each action below is one such run: load_and_process_data (cached per    *)
(* file), the sidebar widgets, the date-range validation, the query, and   *)
(* then metrics, charts, the sorted raw-data view and the two downloads.   *)
(*                                                                         *)
(* Values.  A cell is a record with a field "kind":                        *)
(*   [kind |-> "null"]                   an empty CSV cell (NaN)           *)
(*   [kind |-> "text", s |-> "HQ"]       a string                          *)
(*   [kind |-> "time", day, hour]        a string in a timestamp format,   *)
(*                                       January 2024, day 0 = 2024-01-01  *)
(*   [kind |-> "NaT"]                    a missing Timestamp / date        *)
(*   [kind |-> "Timestamp", secs]        seconds since 2024-01-01T00:00    *)
(*   [kind |-> "date", day]              a datetime.date                   *)
(*   [kind |-> "NaN"]                    a missing float                   *)
(*   [kind |-> "float", v]               a float, in hundredths            *)
(* A table is a sequence of rows [idx |-> index label, data |-> [column    *)
(* |-> cell]].  A value that may be None is <<>> (None) or <<v>>.          *)
(***************************************************************************)
EXTENDS Integers, Sequences, FiniteSets, TLC

VARIABLES
    uploaded_file,      \* st.file_uploader's value
    df,                 \* load_and_process_data's result (cached)
    load_error,         \* the st.error of the loader
    start_date,         \* sidebar "Start date"
    end_date,           \* sidebar "End date"
    locations,          \* sidebar "Select Location:"
    issue_types,        \* sidebar "Select Issue Type:"
    view,               \* what this run of the script showed
    df_selection,       \* the filtered table
    metrics_dict,       \* the KPI values
    charts_to_export,   \* the figures, by title
    df_display,         \* the raw-data tab's table
    csv_data,           \* the CSV download
    pdf_data            \* the PDF download

vars == <<uploaded_file, df, load_error, start_date, end_date, locations,
          issue_types, view, df_selection, metrics_dict, charts_to_export,
          df_display, csv_data, pdf_data>>

----------------------------------------------------------------------------
(* Bounds of the model *)

MaxRows == 2

MaxDay == 1

(* Units *)

SecondsPerHour == 3600

SecondsPerDay == 86400

Hundredths == 100

----------------------------------------------------------------------------
(* Values *)

None == <<>>

Some(v) == <<v>>

Val(o) == o[1]

Range(s) == {s[i] : i \in DOMAIN s}

Null == [kind |-> "null"]

Text(s) == [kind |-> "text", s |-> s]

TimeText(d, h) == [kind |-> "time", day |-> d, hour |-> h]

NaT == [kind |-> "NaT"]

Timestamp(s) == [kind |-> "Timestamp", secs |-> s]

Date(d) == [kind |-> "date", day |-> d]

NaN == [kind |-> "NaN"]

Float(v) == [kind |-> "float", v |-> v]

isna(c) == c.kind \in {"null", "NaT", "NaN"}

Days == 0..MaxDay

----------------------------------------------------------------------------
(* The loader: load_and_process_data *)

required_cols ==
    <<"Created", "Resolved", "Issue Type", "Location", "Assignee", "Status",
      "Priority", "Issue key">>

\* pd.read_csv: a RangeIndex from 0 over the rows of the file
read_csv(file) ==
    [i \in DOMAIN file.rows |-> [idx |-> i - 1, data |-> file.rows[i]]]

\* a schema check that asks only for the columns the script reads later
has_required_cols_read_only(columns) ==
    \A col \in {"Created", "Resolved", "Issue Type", "Location", "Assignee",
                "Priority"} : col \in columns

\* all(col in df.columns for col in required_cols)
has_required_cols(columns) ==
    \A i \in DOMAIN required_cols : required_cols[i] \in columns

\* DataFrame.dropna(subset=...)
dropna(table, subset) ==
    LET keep(row) == \A col \in subset : ~isna(row.data[col])
    IN  SelectSeq(table, keep)

\* pd.to_datetime(..., errors="coerce") of one cell
to_datetime(c) ==
    IF c.kind = "time"
    THEN Timestamp(c.day * SecondsPerDay + c.hour * SecondsPerHour)
    ELSE NaT

\* df[col] = values: one column set (or added), the rows otherwise as they were
assign(table, col, values) ==
    [i \in DOMAIN table |->
        [idx |-> table[i].idx,
         data |-> [c \in DOMAIN table[i].data \cup {col} |->
                      IF c = col THEN values[i] ELSE table[i].data[c]]]]

\* lines 27-28
parse_dates(table) ==
    LET created == [i \in DOMAIN table |-> to_datetime(table[i].data["Created"])]
        withCreated == assign(table, "Created", created)
        resolved == [i \in DOMAIN table |-> to_datetime(table[i].data["Resolved"])]
    IN  assign(withCreated, "Resolved", resolved)

\* the cleaning with the second dropna left out
clean_single_dropna(table) ==
    parse_dates(dropna(table, {"Created", "Resolved"}))

\* lines 26-29: dropna, to_datetime twice, dropna again
clean(table) ==
    dropna(parse_dates(dropna(table, {"Created", "Resolved"})),
           {"Created", "Resolved"})

\* (Resolved - Created).dt.total_seconds() / 3600, in hundredths of an hour
resolution_time(row) ==
    IF isna(row.data["Created"]) \/ isna(row.data["Resolved"])
    THEN NaN
    ELSE Float(((row.data["Resolved"].secs - row.data["Created"].secs)
                  * Hundredths) \div SecondsPerHour)

\* Created.dt.date
created_date(row) ==
    IF isna(row.data["Created"])
    THEN NaT
    ELSE Date(row.data["Created"].secs \div SecondsPerDay)

\* lines 31-32
derive(table) ==
    LET hours == [i \in DOMAIN table |-> resolution_time(table[i])]
        withHours == assign(table, "Resolution Time (hrs)", hours)
        dates == [i \in DOMAIN table |-> created_date(table[i])]
    IN  assign(withHours, "Created Date", dates)

\* the whole function: [df |-> None or the table, error |-> None or the st.error]
load_and_process_data(file) ==
    IF ~file.readable
    THEN [df |-> None,
          error |-> Some([kind |-> "exception", columns |-> <<>>])]
    ELSE IF ~has_required_cols(file.columns)
    THEN [df |-> None,
          error |-> Some([kind |-> "columns", columns |-> required_cols])]
    ELSE [df |-> Some(derive(clean(read_csv(file)))), error |-> None]

----------------------------------------------------------------------------
(* The filter, the aggregations and the exports *)

\* Series.unique()
unique(table, col) == {table[i].data[col] : i \in DOMAIN table}

\* Series.min() of a column of dates: NaT cells skipped, NaN when none is left
min_date(table, col) ==
    LET days == {table[i].data[col].day :
                    i \in {k \in DOMAIN table : ~isna(table[k].data[col])}}
    IN  IF days = {} THEN NaN
        ELSE Date(CHOOSE d \in days : \A e \in days : d <= e)

\* Series.max() of a column of dates
max_date(table, col) ==
    LET days == {table[i].data[col].day :
                    i \in {k \in DOMAIN table : ~isna(table[k].data[col])}}
    IN  IF days = {} THEN NaN
        ELSE Date(CHOOSE d \in days : \A e \in days : d >= e)

\* "column == @list" with an empty list read as no restriction
isin_or_all(c, values) == values = {} \/ c \in values

\* "column == @list": Series.isin(list); NaN in the list matches a NaN cell
isin(c, values) == c \in values

\* the date comparison with the end date excluded
in_date_range_exclusive(c, sd, ed) ==
    ~isna(c) /\ sd <= c.day /\ c.day < ed

\* @start_date <= `Created Date` <= @end_date, false on a missing date
in_date_range(c, sd, ed) ==
    ~isna(c) /\ sd <= c.day /\ c.day <= ed

\* lines 126-129: the boolean mask of df.query, then the rows it keeps
query(table, sd, ed, locs, types) ==
    LET mask == [i \in DOMAIN table |->
                    /\ in_date_range(table[i].data["Created Date"], sd, ed)
                    /\ isin(table[i].data["Location"], locs)
                    /\ isin(table[i].data["Issue Type"], types)]
        Keep[i \in 0..Len(table)] ==
            IF i = 0 THEN <<>>
            ELSE IF mask[i] THEN Append(Keep[i - 1], table[i]) ELSE Keep[i - 1]
    IN  Keep[Len(table)]

\* Series.value_counts(): dropna=True by default, so NaN cells are not counted
value_counts(table, col) ==
    [v \in {c \in unique(table, col) : ~isna(c)} |->
        Cardinality({i \in DOMAIN table : table[i].data[col] = v})]

\* x / n rounded half to even, n > 0
round_div(x, n) ==
    LET q == x \div n
        r == x % n
    IN  IF 2 * r < n THEN q
        ELSE IF 2 * r > n THEN q + 1
        ELSE IF q % 2 = 0 THEN q ELSE q + 1

\* round(Series.mean(), 2): NaN cells skipped, NaN when nothing is left
mean_rounded(table, col) ==
    LET present == {i \in DOMAIN table : ~isna(table[i].data[col])}
        Sum[i \in 0..Len(table)] ==
            IF i = 0 THEN 0
            ELSE Sum[i - 1] + (IF i \in present THEN table[i].data[col].v ELSE 0)
    IN  IF present = {} THEN NaN
        ELSE Float(round_div(Sum[Len(table)], Cardinality(present)))

\* lines 139-142: a dict, in insertion order
metrics(sel) ==
    <<  <<"Total Tickets", Len(sel)>>,
        <<"Average Resolution Time (hrs)",
          mean_rounded(sel, "Resolution Time (hrs)")>>  >>

\* px.bar / px.pie of a value_counts
figure(type, counts) == [type |-> type, counts |-> counts]

\* the figures with the priority chart never added
charts_without_priority(sel) ==
    <<  <<"Issue Type Distribution", figure("bar", value_counts(sel, "Issue Type"))>>,
        <<"Assignee Workload", figure("bar", value_counts(sel, "Assignee"))>>,
        <<"Locations by Ticket Volume", figure("bar", value_counts(sel, "Location"))>>  >>

\* lines 157-188: charts_to_export, a dict in insertion order
charts(sel) ==
    <<  <<"Issue Type Distribution", figure("bar", value_counts(sel, "Issue Type"))>>,
        <<"Assignee Workload", figure("bar", value_counts(sel, "Assignee"))>>,
        <<"Locations by Ticket Volume", figure("bar", value_counts(sel, "Location"))>>,
        <<"Priority Distribution", figure("pie", value_counts(sel, "Priority"))>>  >>

orderings(n) ==
    {p \in [1..n -> 1..n] : \A i, j \in 1..n : p[i] = p[j] => i = j}

\* a before b when sorting ascending, NaN last
ordered_asc(a, b) == isna(b) \/ (~isna(a) /\ a.v <= b.v)

\* a before b when sorting descending, NaN last
ordered_desc(a, b) == isna(b) \/ (~isna(a) /\ a.v >= b.v)

\* the sort, ascending
sort_values_ascending(table, col) ==
    {[i \in DOMAIN table |-> table[p[i]]] : p \in
        {p \in orderings(Len(table)) :
            \A i, j \in DOMAIN table :
                i < j => ordered_asc(table[p[i]].data[col], table[p[j]].data[col])}}

\* line 192: sort_values(by=col, ascending=False) with the default
\* kind="quicksort", which is not stable: every descending order of the rows
\* is a possible result
sort_values(table, col) ==
    {[i \in DOMAIN table |-> table[p[i]]] : p \in
        {p \in orderings(Len(table)) :
            \A i, j \in DOMAIN table :
                i < j => ordered_desc(table[p[i]].data[col], table[p[j]].data[col])}}

\* line 193: df_display.index = range(1, len(df_display) + 1)
reindex(table) == [i \in DOMAIN table |-> [table[i] EXCEPT !.idx = i]]

\* df.to_csv(index=False): the rows without their index labels
convert_df_to_csv(table) == [i \in DOMAIN table |-> table[i].data]

\* date.strftime('%Y-%m-%d')
strftime(d) == [Y |-> 2024, m |-> 1, d |-> d + 1]

\* lines 56-98: the period line, one line per metric, one image per figure
create_pdf_report(metricsDict, chartsDict, sd, ed) ==
    [period |-> <<strftime(sd), strftime(ed)>>,
     kpis |-> metricsDict,
     images |-> [i \in DOMAIN chartsDict |->
                    [title |-> chartsDict[i][1], png |-> chartsDict[i][2]]]]

\* the range check with the operands the other way round
date_range_invalid_reversed(sd, ed) == ed > sd

\* line 121
date_range_invalid(sd, ed) == sd > ed

\* the emptiness check made on the cleaned table
selection_empty_of_df(table, sel) == table = <<>>

\* line 132: df_selection.empty
selection_empty(table, sel) == sel = <<>>

----------------------------------------------------------------------------
(* The files a user may upload *)

Required == Range(required_cols)

IntCell(n) == [kind |-> "int", v |-> n]

ticket(created, resolved, issue_type, location, assignee, priority) ==
    [c \in Required |->
        CASE c = "Created" -> created
          [] c = "Resolved" -> resolved
          [] c = "Issue Type" -> issue_type
          [] c = "Location" -> location
          [] c = "Assignee" -> assignee
          [] c = "Priority" -> priority
          [] c = "Status" -> Text("Closed")
          [] OTHER -> IntCell(0)]

\* rows whose Created or Resolved cell is empty or unparsable, and a clean row
DirtyRows ==
    {ticket(cr[1], cr[2], Text("Hardware"), Text("HQ"), Text("Ali"), Text("High")) :
        cr \in {<<TimeText(0, 0), TimeText(0, 12)>>,
                <<Null, TimeText(0, 12)>>, <<Text("n/a"), TimeText(0, 12)>>,
                <<TimeText(0, 0), Null>>, <<TimeText(0, 0), Text("n/a")>>}}

\* rows on different days, with different (or no) locations and issue types
FilterRows ==
    {ticket(TimeText(d, 0), TimeText(d, 6), lt[2], lt[1], Text("Ali"), Text("High")) :
        d \in Days,
        lt \in {<<Text("HQ"), Text("Hardware")>>, <<Null, Text("Software")>>}}

\* rows with different resolution times (one negative), assignees and priorities
AggregateRows ==
    {ticket(TimeText(0, 6), TimeText(0, h), Text("Hardware"), Text("HQ"), ap[1], ap[2]) :
        h \in {0, 12},
        ap \in {<<Text("Ali"), Text("High")>>, <<Null, Text("High")>>,
                <<Text("Ali"), Text("Low")>>}}

\* "Issue key": one key per row of the file
with_keys(rows) ==
    [i \in DOMAIN rows |-> [rows[i] EXCEPT !["Issue key"] = IntCell(i)]]

tables_over(rowSet) ==
    {with_keys(rows) : rows \in UNION {[1..n -> rowSet] : n \in 0..MaxRows}}

CompleteFiles ==
    {[readable |-> TRUE, columns |-> Required, rows |-> rows] :
        rows \in tables_over(DirtyRows) \cup tables_over(FilterRows)
                    \cup tables_over(AggregateRows)}

restrict(row, columns) ==
    [c \in columns |-> IF c \in DOMAIN row THEN row[c] ELSE Text("x")]

\* files that lack some required columns, with or without a column of their
\* own; a header names at least one column
IncompleteFiles ==
    {file \in
        {[readable |-> TRUE,
          columns |-> (Required \ missing) \cup extra,
          rows |-> [i \in DOMAIN rows |->
                      restrict(rows[i], (Required \ missing) \cup extra)]] :
            missing \in {{c} : c \in Required} \cup {{"Priority", "Status"}, Required},
            extra \in {{}, {"Reporter"}},
            rows \in {<<>>,
                      with_keys(<<ticket(TimeText(0, 0), TimeText(0, 12),
                                         Text("Hardware"), Text("HQ"), Text("Ali"),
                                         Text("High"))>>)}} :
        file.columns # {}}

\* a file pd.read_csv cannot read at all (no header line)
UnreadableFiles == {[readable |-> FALSE, columns |-> {}, rows |-> <<>>]}

Files == CompleteFiles \cup IncompleteFiles \cup UnreadableFiles

----------------------------------------------------------------------------
(* One run of the script *)

no_widgets ==
    /\ start_date' = None
    /\ end_date' = None
    /\ locations' = {}
    /\ issue_types' = {}

shows(v, sel, m, ch, disp, csv, pdf) ==
    /\ view' = v
    /\ df_selection' = sel
    /\ metrics_dict' = m
    /\ charts_to_export' = ch
    /\ df_display' = disp
    /\ csv_data' = csv
    /\ pdf_data' = pdf

shows_only(v) == shows(v, None, None, None, None, None, None)

\* lines 120-214, the widgets holding sd, ed, locs and types
dashboard(table, sd, ed, locs, types) ==
    /\ start_date' = Some(sd)
    /\ end_date' = Some(ed)
    /\ locations' = locs
    /\ issue_types' = types
    /\ IF date_range_invalid(sd, ed)
       THEN shows_only("rejected")
       ELSE LET sel == query(table, sd, ed, locs, types)
            IN  IF selection_empty(table, sel)
                THEN shows("empty", Some(sel), None, None, None, None, None)
                ELSE \E sorted \in sort_values(sel, "Resolution Time (hrs)") :
                        shows("displayed", Some(sel), Some(metrics(sel)),
                              Some(charts(sel)), Some(reindex(sorted)),
                              Some(convert_df_to_csv(sel)),
                              Some(create_pdf_report(metrics(sel), charts(sel), sd, ed)))

Init ==
    /\ uploaded_file = None
    /\ df = None
    /\ load_error = None
    /\ start_date = None
    /\ end_date = None
    /\ locations = {}
    /\ issue_types = {}
    /\ view = "welcome"
    /\ df_selection = None
    /\ metrics_dict = None
    /\ charts_to_export = None
    /\ df_display = None
    /\ csv_data = None
    /\ pdf_data = None

\* lines 103-118 and on: a file is put into the (empty) uploader and the
\* script runs with every widget at its default.  With no date in the cleaned table, min() of the
\* "Created Date" column is NaN, st.sidebar.date_input has no date to start
\* from, and the run ends at line 113 with that exception.
UploadFile(file) ==
    /\ uploaded_file = None
    /\ uploaded_file' = Some(file)
    /\ LET loaded == load_and_process_data(file)
       IN  /\ df' = loaded.df
           /\ load_error' = loaded.error
           /\ IF loaded.df = None
              THEN no_widgets /\ shows_only("load_failed")
              ELSE IF isna(min_date(Val(loaded.df), "Created Date"))
              THEN no_widgets /\ shows_only("exception")
              ELSE dashboard(Val(loaded.df),
                             min_date(Val(loaded.df), "Created Date").day,
                             max_date(Val(loaded.df), "Created Date").day,
                             unique(Val(loaded.df), "Location"),
                             unique(Val(loaded.df), "Issue Type"))

\* lines 216-217: the file is removed
RemoveFile ==
    /\ uploaded_file # None
    /\ uploaded_file' = None
    /\ df' = None
    /\ load_error' = None
    /\ no_widgets
    /\ shows_only("welcome")

\* a filter run that writes the filtered rows back to the cleaned table
filter_interaction_in_place(sd, ed, locs, types) ==
    /\ df # None
    /\ start_date # None
    /\ UNCHANGED <<uploaded_file, load_error>>
    /\ df' = IF date_range_invalid(sd, ed) THEN df
             ELSE Some(query(Val(df), sd, ed, locs, types))
    /\ dashboard(Val(df), sd, ed, locs, types)

\* a widget changes: the script runs again on the cached cleaned table
filter_interaction(sd, ed, locs, types) ==
    /\ df # None
    /\ start_date # None
    /\ UNCHANGED <<uploaded_file, df, load_error>>
    /\ dashboard(Val(df), sd, ed, locs, types)

SetStartDate(d) ==
    /\ start_date # None
    /\ d # Val(start_date)
    /\ filter_interaction(d, Val(end_date), locations, issue_types)

SetEndDate(d) ==
    /\ end_date # None
    /\ d # Val(end_date)
    /\ filter_interaction(Val(start_date), d, locations, issue_types)

toggled(set, v) == IF v \in set THEN set \ {v} ELSE set \cup {v}

ToggleLocation(v) ==
    /\ start_date # None
    /\ filter_interaction(Val(start_date), Val(end_date), toggled(locations, v),
                          issue_types)

ToggleIssueType(v) ==
    /\ start_date # None
    /\ filter_interaction(Val(start_date), Val(end_date), locations,
                          toggled(issue_types, v))

Next ==
    \/ \E file \in Files : UploadFile(file)
    \/ RemoveFile
    \/ \E d \in Days : SetStartDate(d)
    \/ \E d \in Days : SetEndDate(d)
    \/ \E v \in (IF df = None THEN {} ELSE unique(Val(df), "Location")) :
            ToggleLocation(v)
    \/ \E v \in (IF df = None THEN {} ELSE unique(Val(df), "Issue Type")) :
            ToggleIssueType(v)

Spec == Init /\ [][Next]_vars

----------------------------------------------------------------------------
(* Properties *)

has_criteria == start_date # None

missing_columns(file) == Required \ file.columns

day_of(row) == row.data["Created Date"].day

hours_of(row) == row.data["Resolution Time (hrs)"]

\* the rows of the cleaned table that the filter criteria describe
matching ==
    {i \in DOMAIN Val(df) :
        /\ Val(start_date) <= day_of(Val(df)[i])
        /\ day_of(Val(df)[i]) <= Val(end_date)
        /\ Val(df)[i].data["Location"] \in locations
        /\ Val(df)[i].data["Issue Type"] \in issue_types}

\* C1: for a valid range (start <= end) the filtered table holds exactly the
\* rows of the cleaned table whose created date is in [start, end], bounds
\* included, whose location is allowed and whose issue type is allowed: every
\* such row once, in the cleaned table's order, and no other row.
C1_FilterExact ==
    (has_criteria /\ Val(start_date) <= Val(end_date)) =>
        /\ df_selection # None
        /\ Len(Val(df_selection)) = Cardinality(matching)
        /\ \A i \in matching : \E j \in DOMAIN Val(df_selection) :
                Val(df_selection)[j] = Val(df)[i]
        /\ \A j \in DOMAIN Val(df_selection) : \E i \in matching :
                Val(df_selection)[j] = Val(df)[i]
        /\ \A j, k \in DOMAIN Val(df_selection) :
                j < k => Val(df_selection)[j].idx < Val(df_selection)[k].idx

\* a view that keeps a row created on the end date and leaves another row out
C1_Witness ==
    /\ view = "displayed"
    /\ Len(Val(df_selection)) < Len(Val(df))
    /\ \E j \in DOMAIN Val(df_selection) :
            day_of(Val(df_selection)[j]) = Val(end_date)
    /\ \E i \in DOMAIN Val(df) : day_of(Val(df)[i]) < Val(start_date)

\* C2 as stated: when the file lacks required columns the load fails with an
\* error that names the columns that are absent, and there is no table.
C2_ErrorNamesMissingColumns ==
    (uploaded_file # None /\ Val(uploaded_file).readable
        /\ missing_columns(Val(uploaded_file)) # {}) =>
        /\ df = None
        /\ load_error # None
        /\ Val(load_error).kind = "columns"
        /\ Range(Val(load_error).columns) = missing_columns(Val(uploaded_file))

\* C2 as the code has it: when the file lacks required columns the load fails
\* with an error that lists all eight required columns (the absent ones among
\* them, not singled out), and there is no table.
C2_ErrorListsRequiredColumns ==
    (uploaded_file # None /\ Val(uploaded_file).readable
        /\ missing_columns(Val(uploaded_file)) # {}) =>
        /\ df = None
        /\ load_error # None
        /\ Val(load_error).kind = "columns"
        /\ Val(load_error).columns =
              <<"Created", "Resolved", "Issue Type", "Location", "Assignee",
                "Status", "Priority", "Issue key">>
        /\ missing_columns(Val(uploaded_file)) \subseteq Range(Val(load_error).columns)
        /\ view = "load_failed"
        /\ df_selection = None

\* a file without a Status column, with a row in it, was refused
C2_Witness ==
    /\ uploaded_file # None
    /\ missing_columns(Val(uploaded_file)) = {"Status"}
    /\ Val(uploaded_file).rows # <<>>
    /\ load_error # None
    /\ df = None

\* the rows of the file whose Created and Resolved cells are both timestamps
parsable_rows(file) ==
    {i \in DOMAIN file.rows :
        file.rows[i]["Created"].kind = "time" /\ file.rows[i]["Resolved"].kind = "time"}

\* C3: a readable file with all required columns yields a table; each of its
\* rows has a parsed Created, a parsed Resolved and the resolution time
\* computed from them, and its rows are exactly the rows of the file whose
\* Created and Resolved cells are both present and parsable.
C3_CleanedRowsComplete ==
    (uploaded_file # None /\ Val(uploaded_file).readable
        /\ missing_columns(Val(uploaded_file)) = {}) =>
        /\ df # None
        /\ \A i \in DOMAIN Val(df) :
            /\ Val(df)[i].data["Created"].kind = "Timestamp"
            /\ Val(df)[i].data["Resolved"].kind = "Timestamp"
            /\ hours_of(Val(df)[i]).kind = "float"
            /\ hours_of(Val(df)[i]).v * SecondsPerHour =
                  (Val(df)[i].data["Resolved"].secs - Val(df)[i].data["Created"].secs)
                      * Hundredths
        /\ {Val(df)[i].idx + 1 : i \in DOMAIN Val(df)} = parsable_rows(Val(uploaded_file))
        /\ Len(Val(df)) = Cardinality(parsable_rows(Val(uploaded_file)))

\* a table that kept one row and lost a row whose Created cell is unparsable text
C3_Witness ==
    /\ df # None
    /\ Len(Val(df)) = 1
    /\ \E i \in DOMAIN Val(uploaded_file).rows :
        /\ Val(uploaded_file).rows[i]["Created"].kind = "text"
        /\ Val(uploaded_file).rows[i]["Resolved"].kind = "time"

no_outputs ==
    /\ df_selection = None
    /\ metrics_dict = None
    /\ charts_to_export = None
    /\ df_display = None
    /\ csv_data = None
    /\ pdf_data = None

\* C4: with start > end the run is rejected before the filter: no filtered
\* table, no metrics, no charts, no raw-data view and no download exist.
C4_InvalidRangeRejected ==
    (has_criteria /\ Val(start_date) > Val(end_date)) =>
        view = "rejected" /\ no_outputs

\* a rejected run over a table that has rows on the end date
C4_Witness ==
    /\ view = "rejected"
    /\ Val(start_date) > Val(end_date)
    /\ \E i \in DOMAIN Val(df) :
        /\ day_of(Val(df)[i]) = Val(end_date)
        /\ Val(df)[i].data["Location"] \in locations
        /\ Val(df)[i].data["Issue Type"] \in issue_types

\* C5: while a file stays uploaded, the cleaned table is the table the loader
\* returned for it, rows, values and index labels, whatever filter runs
\* (rejected, empty or displayed with its sort and exports) came after.
C5_CleanedTableUnchanged ==
    uploaded_file # None => df = load_and_process_data(Val(uploaded_file)).df

\* a displayed view, sorted and exported, under a narrowed location filter
C5_Witness ==
    /\ view = "displayed"
    /\ locations # unique(Val(df), "Location")
    /\ Len(Val(df_selection)) < Len(Val(df))
    /\ csv_data # None

\* C6: with no location allowed, or no issue type allowed, nothing is shown
\* as a view and, for a valid range, the filtered table has no rows.
C6_EmptySetSelectsNothing ==
    (has_criteria /\ (locations = {} \/ issue_types = {})) =>
        /\ view # "displayed"
        /\ Val(start_date) <= Val(end_date) => df_selection = Some(<<>>)

\* no location allowed, while a row of the table is in the range and of an
\* allowed issue type
C6_Witness ==
    /\ view = "empty"
    /\ locations = {}
    /\ \E i \in DOMAIN Val(df) :
        /\ Val(start_date) <= day_of(Val(df)[i])
        /\ day_of(Val(df)[i]) <= Val(end_date)
        /\ Val(df)[i].data["Issue Type"] \in issue_types

RECURSIVE sum_over(_, _)
sum_over(f, S) ==
    IF S = {} THEN 0
    ELSE LET x == CHOOSE y \in S : TRUE IN f[x] + sum_over(f, S \ {x})

chart_field(title) ==
    CASE title = "Issue Type Distribution" -> "Issue Type"
      [] title = "Assignee Workload" -> "Assignee"
      [] title = "Locations by Ticket Volume" -> "Location"
      [] title = "Priority Distribution" -> "Priority"

\* C7: for each charted field the counts sum to the number of rows of the
\* filtered table and every value of the field in it, a missing value
\* included, has an entry.
C7_CountsCoverEveryRow ==
    view = "displayed" =>
        \A k \in DOMAIN Val(charts_to_export) :
            LET counts == Val(charts_to_export)[k][2].counts
                col == chart_field(Val(charts_to_export)[k][1])
            IN  /\ sum_over(counts, DOMAIN counts) = Len(Val(df_selection))
                /\ DOMAIN counts = unique(Val(df_selection), col)

stable_before(a, b) ==
    \/ hours_of(a).v > hours_of(b).v
    \/ hours_of(a).v = hours_of(b).v /\ a.idx < b.idx

\* C9 as stated: the raw-data view is the stable descending sort: rows of
\* equal resolution time keep the order they have in the filtered table.
C9_StableSort ==
    view = "displayed" =>
        /\ Len(Val(df_display)) = Len(Val(df_selection))
        /\ \A i, j \in DOMAIN Val(df_display) :
            i < j =>
                \E a, b \in DOMAIN Val(df_selection) :
                    /\ Val(df_selection)[a].data = Val(df_display)[i].data
                    /\ Val(df_selection)[b].data = Val(df_display)[j].data
                    /\ stable_before(Val(df_selection)[a], Val(df_selection)[b])

\* C9 as the code has it: the raw-data view is a permutation of the filtered
\* rows, relabelled 1..n, in which each row's resolution time is >= that of
\* the row after it; the order among rows of equal resolution time is not
\* fixed.
C9_SortedDescendingPermutation ==
    view = "displayed" =>
        /\ Len(Val(df_display)) = Len(Val(df_selection))
        /\ \E p \in orderings(Len(Val(df_selection))) :
            \A i \in DOMAIN Val(df_display) :
                Val(df_display)[i].data = Val(df_selection)[p[i]].data
        /\ \A i \in DOMAIN Val(df_display) :
            /\ Val(df_display)[i].idx = i
            /\ i < Len(Val(df_display)) =>
                  hours_of(Val(df_display)[i]).v >= hours_of(Val(df_display)[i + 1]).v

\* a view whose first filtered row has a smaller resolution time than its second
C9_Witness ==
    /\ view = "displayed"
    /\ Len(Val(df_selection)) >= 2
    /\ hours_of(Val(df_selection)[1]).v < hours_of(Val(df_selection)[2]).v
    /\ Val(df_display)[1].data = Val(df_selection)[2].data

\* the daily volume: one count per created date in the filtered table
daily_volume(table) ==
    [d \in unique(table, "Created Date") |->
        Cardinality({i \in DOMAIN table : table[i].data["Created Date"] = d})]

report_titles == {Val(pdf_data).images[i].title : i \in DOMAIN Val(pdf_data).images}

\* C10 as stated: a generated report holds the period, the two metrics and
\* five visualizations, the daily volume (one entry per created date) among
\* them.
C10_ReportHasFiveVisualizations ==
    view = "displayed" =>
        /\ pdf_data # None
        /\ Len(Val(pdf_data).images) = 5
        /\ \E i \in DOMAIN Val(pdf_data).images :
                Val(pdf_data).images[i].png.counts = daily_volume(Val(df_selection))

\* C10 as the code has it: a generated report holds the period, the two
\* metrics and four visualizations, one each for issue type, assignee,
\* location and priority (the figures of the dashboard); it holds no
\* daily-volume visualization.
C10_ReportHasFourVisualizations ==
    view = "displayed" =>
        /\ pdf_data # None
        /\ Val(pdf_data).period[1].d = Val(start_date) + 1
        /\ Val(pdf_data).period[2].d = Val(end_date) + 1
        /\ Len(Val(pdf_data).kpis) = 2
        /\ Val(pdf_data).kpis[1] = <<"Total Tickets", Len(Val(df_selection))>>
        /\ Val(pdf_data).kpis[2][1] = "Average Resolution Time (hrs)"
        /\ Val(pdf_data).kpis[2][2] = Val(metrics_dict)[2][2]
        /\ Len(Val(pdf_data).images) = 4
        /\ report_titles = {"Issue Type Distribution", "Assignee Workload",
                            "Locations by Ticket Volume", "Priority Distribution"}
        /\ \A i \in DOMAIN Val(pdf_data).images :
            /\ Val(pdf_data).images[i].title = Val(charts_to_export)[i][1]
            /\ Val(pdf_data).images[i].png = Val(charts_to_export)[i][2]
            /\ \A v \in DOMAIN Val(pdf_data).images[i].png.counts :
                Val(pdf_data).images[i].png.counts[v] =
                    Cardinality({r \in DOMAIN Val(df_selection) :
                        Val(df_selection)[r].data[chart_field(Val(pdf_data).images[i].title)] = v})
            /\ Val(pdf_data).images[i].png.counts # daily_volume(Val(df_selection))

\* a report over rows created on two different days
C10_Witness ==
    /\ view = "displayed"
    /\ pdf_data # None
    /\ Val(start_date) < Val(end_date)
    /\ Cardinality(unique(Val(df_selection), "Created Date")) = 2

============================================================================
